---- MODULE Spec2Model ----
(***************************************************************************)
(* A model of src/main.py of pdf-helper: the text pipeline                 *)
(*   TextParser.parse_sections -> DataProcessor.process_data ->            *)
(*   the merge loop of main -> ExcelExporter.export_to_excel,              *)
(* with DataProcessor.sort_periods and ExcelExporter.sanitize_sheet_name.  *)
(*                                                                         *)
(* A Python str is a sequence of characters; a character is a one-element  *)
(* TLA+ string, except the two non-ASCII characters of the marker word at  *)
(* main.py:130, which are named "A~" (U+00C3) and "ox" (U+00A4).           *)
(* A Python float that was read from a token of the shape ddd[,d[d]] is    *)
(* held as its number of hundredths (305,25 -> 30525).                     *)
(* A Python dict is an ordered dict: a sequence of <<key, value>> pairs in *)
(* insertion order.                                                        *)
(***************************************************************************)
EXTENDS Integers, Sequences, FiniteSets, TLC

VARIABLES
    pc,             \* position of the run: which loop of the pipeline is active
    title_keywords, \* main: title_keywords, the configured keyword list
    num_files,      \* main: file_count, the number of selected documents
    file_index,     \* main: enumerate index of the document being processed
    text,           \* main: pdf_text, the text of the current document
    li,             \* parse_sections: number of lines already scanned
    current_title,  \* parse_sections: current_title (None or a line)
    sections,       \* parse_sections: sections
    si,             \* process_data: number of sections already entered
    lj,             \* process_data: number of lines of the entered section done
    all_data,       \* process_data: all_data
    combined_data,  \* main: combined_data
    file_results,   \* main: the file_data each finished document returned
    ei,             \* export_to_excel: number of titles already given a sheet
    used_names,     \* export_to_excel: used_names
    sheet_names,    \* export_to_excel: sheet_name of each title, in order
    writer,         \* export_to_excel: "none", "open" or "closed"
    sheets,         \* export_to_excel: the section sheets written so far
    details,        \* export_to_excel: the rows of the Details sheet
    outcome,        \* export_to_excel: "none", "nodata" or "written"
    periods_in,     \* sort_periods: the argument
    periods_out     \* sort_periods: the returned list

vars == <<pc, title_keywords, num_files, file_index, text, li, current_title,
          sections, si, lj, all_data, combined_data, file_results, ei,
          used_names, sheet_names, writer, sheets, details, outcome,
          periods_in, periods_out>>

\* None, where a str is expected: no str of characters equals it.
None == <<"None">>

(***************************************************************************)
(* Characters and str operations.                                          *)
(***************************************************************************)
Digits == {"0", "1", "2", "3", "4", "5", "6", "7", "8", "9"}

Letters == {"a", "b", "c", "d", "e", "f", "g", "h", "i", "j", "k", "l", "m",
            "n", "o", "p", "q", "r", "s", "t", "u", "v", "w", "x", "y", "z",
            "A", "B", "C", "D", "E", "F", "G", "H", "I", "J", "K", "L", "M",
            "N", "O", "P", "Q", "R", "S", "T", "U", "V", "W", "X", "Y", "Z",
            "A~"}

\* \w of a str pattern: letters, digits and the underscore.
WordChars == Letters \cup Digits \cup {"_"}

\* \s, and what str.strip() removes.
SpaceChars == {" ", "\t", "\n", "\r"}

DigitVal(c) ==
    CASE c = "0" -> 0 [] c = "1" -> 1 [] c = "2" -> 2 [] c = "3" -> 3
      [] c = "4" -> 4 [] c = "5" -> 5 [] c = "6" -> 6 [] c = "7" -> 7
      [] c = "8" -> 8 [] c = "9" -> 9

DigitChar(d) ==
    CASE d = 0 -> "0" [] d = 1 -> "1" [] d = 2 -> "2" [] d = 3 -> "3"
      [] d = 4 -> "4" [] d = 5 -> "5" [] d = 6 -> "6" [] d = 7 -> "7"
      [] d = 8 -> "8" [] d = 9 -> "9"

\* s[i:] of Python, i counted from 1.
From(s, i) == SubSeq(s, i, Len(s))

\* s.startswith(p), and the same test at position i.
StartsWithAt(s, i, p) ==
    /\ i + Len(p) - 1 <= Len(s)
    /\ SubSeq(s, i, i + Len(p) - 1) = p

StartsWith(s, p) == StartsWithAt(s, 1, p)

\* p in s
Contains(s, p) == \E i \in 1..(Len(s) + 1) : StartsWithAt(s, i, p)

\* The first position >= i of s at which p starts, 0 when there is none.
RECURSIVE FindFrom(_, _, _)
FindFrom(s, i, p) ==
    IF i + Len(p) - 1 > Len(s) THEN 0
    ELSE IF StartsWithAt(s, i, p) THEN i
    ELSE FindFrom(s, i + 1, p)

\* s.split(sep) for a non-empty separator.
RECURSIVE SplitSep(_, _)
SplitSep(s, sep) ==
    LET k == FindFrom(s, 1, sep)
    IN  IF k = 0 THEN <<s>>
        ELSE <<SubSeq(s, 1, k - 1)>> \o SplitSep(From(s, k + Len(sep)), sep)

RECURSIVE LStrip(_)
LStrip(s) ==
    IF s # <<>> /\ s[1] \in SpaceChars THEN LStrip(Tail(s)) ELSE s

RECURSIVE RStrip(_)
RStrip(s) ==
    IF s # <<>> /\ s[Len(s)] \in SpaceChars
    THEN RStrip(SubSeq(s, 1, Len(s) - 1)) ELSE s

\* s.strip()
Strip(s) == RStrip(LStrip(s))

\* s.split(): the maximal runs of non-whitespace characters.
RECURSIVE SplitWs(_)
SplitWs(s) ==
    LET t == LStrip(s)
        RECURSIVE WordEnd(_)
        WordEnd(i) ==
            IF i <= Len(t) /\ t[i] \notin SpaceChars THEN WordEnd(i + 1) ELSE i
    IN  IF t = <<>> THEN <<>>
        ELSE <<SubSeq(t, 1, WordEnd(1) - 1)>> \o SplitWs(From(t, WordEnd(1)))

\* The number of characters of s from position i on that lie in set cs,
\* counted while they do: what a greedy [cs]* consumes.
RECURSIVE RunLen(_, _, _)
RunLen(s, i, cs) ==
    IF i <= Len(s) /\ s[i] \in cs THEN 1 + RunLen(s, i + 1, cs) ELSE 0

\* "sep".join(parts)
RECURSIVE Join(_, _)
Join(parts, sep) ==
    IF parts = <<>> THEN <<>>
    ELSE IF Len(parts) = 1 THEN parts[1]
    ELSE parts[1] \o sep \o Join(Tail(parts), sep)

(***************************************************************************)
(* Ordered dicts.                                                          *)
(***************************************************************************)
DictKeys(d) == [i \in 1..Len(d) |-> d[i][1]]

DictKeySet(d) == {d[i][1] : i \in 1..Len(d)}

DictHas(d, k) == k \in DictKeySet(d)

DictGet(d, k) == d[CHOOSE i \in 1..Len(d) : d[i][1] = k][2]

\* d[k] = v: an existing key keeps its place, a new key goes last.
DictSet(d, k, v) ==
    IF DictHas(d, k)
    THEN [i \in 1..Len(d) |-> IF d[i][1] = k THEN <<k, v>> ELSE d[i]]
    ELSE Append(d, <<k, v>>)

(***************************************************************************)
(* TextParser: the two patterns and parse_sections.                        *)
(***************************************************************************)
Weizen == <<"W", "e", "i", "z", "e", "n">>

FWeizen == <<"F", "-">> \o Weizen

\* Settings.default_settings["title_keywords"]
DefaultKeywords == <<Weizen, FWeizen>>

\* The months of date_pattern, with DataProcessor.month_order.
Months == << <<"J", "a", "n">>, <<"F", "e", "b">>, <<"M", "r", "z">>,
             <<"A", "p", "r">>, <<"M", "a", "i">>, <<"J", "u", "n">>,
             <<"J", "u", "l">>, <<"A", "u", "g">>, <<"S", "e", "p">>,
             <<"O", "k", "t">>, <<"N", "o", "v">>, <<"D", "e", "z">> >>

MonthSet == {Months[i] : i \in 1..Len(Months)}

month_order(m) == CHOOSE i \in 1..Len(Months) : Months[i] = m

\* The character class [\w\s/-] of title_pattern.
TitleRestChars == WordChars \cup SpaceChars \cup {"/", "-"}

\* title_pattern.match(line) for title_pattern = ^(k1|k2|...)[\w\s/-]*:
\* whether there is a match and where it ends.  The alternatives are tried
\* in order and the class may match nothing, so the first keyword that is
\* a prefix of the line decides.
MatchEndAfter(kws, line, k) == Len(kws[k]) + RunLen(line, Len(kws[k]) + 1, TitleRestChars)

title_pattern_match(kws, line) ==
    LET hits == {k \in 1..Len(kws) : StartsWith(line, kws[k])}
    IN  IF hits = {} THEN [matched |-> FALSE, end |-> 0]
        ELSE [matched |-> TRUE,
              end |-> MatchEndAfter(kws, line,
                                    CHOOSE k \in hits : \A h \in hits : k <= h)]

\* One attempt of date_pattern at position i of s:
\*   (Mon)\s*(\d{2})(?:\s*-\s*(Mon)\s*(\d{2}))?
\* [ok, groups, end]: groups are the four groups ("" for an absent one, here
\* <<>>), end is the position after the match.
MonthYearAt(s, i) ==
    LET j == i + 3 + RunLen(s, i + 3, SpaceChars)
    IN  IF /\ i + 2 <= Len(s)
           /\ SubSeq(s, i, i + 2) \in MonthSet
           /\ j + 1 <= Len(s)
           /\ s[j] \in Digits
           /\ s[j + 1] \in Digits
        THEN [ok |-> TRUE, month |-> SubSeq(s, i, i + 2),
              year |-> SubSeq(s, j, j + 1), end |-> j + 2]
        ELSE [ok |-> FALSE, month |-> <<>>, year |-> <<>>, end |-> i]

DateMatchAt(s, i) ==
    LET a == MonthYearAt(s, i)
        d == a.end + RunLen(s, a.end, SpaceChars)
        b == IF d <= Len(s) /\ s[d] = "-"
             THEN MonthYearAt(s, d + 1 + RunLen(s, d + 1, SpaceChars))
             ELSE [ok |-> FALSE, month |-> <<>>, year |-> <<>>, end |-> d]
    IN  IF ~a.ok THEN [ok |-> FALSE, groups |-> <<>>, end |-> i]
        ELSE IF b.ok
        THEN [ok |-> TRUE, groups |-> <<a.month, a.year, b.month, b.year>>,
              end |-> b.end]
        ELSE [ok |-> TRUE, groups |-> <<a.month, a.year, <<>>, <<>> >>,
              end |-> a.end]

\* date_pattern.findall(line): the groups of the non-overlapping matches,
\* leftmost first.
RECURSIVE DateFindallFrom(_, _)
DateFindallFrom(s, i) ==
    IF i > Len(s) THEN <<>>
    ELSE LET m == DateMatchAt(s, i)
         IN  IF m.ok THEN <<m.groups>> \o DateFindallFrom(s, m.end)
             ELSE DateFindallFrom(s, i + 1)

date_findall(line) == DateFindallFrom(line, 1)

\* str.split("\n") of the document text.
TextLines(t) == SplitSep(t, <<"\n">>)

Ernte == <<"E", "r", "n", "t", "e">>

\* A variant that keeps the lines of a title that occurs again
\* (sections.setdefault(line, []) in place of sections[line] = []).
ParseStepNoReset(kws, cur, secs, raw) ==
    LET line == Strip(raw)
    IN  IF title_pattern_match(kws, line).matched
        THEN [current_title |-> line,
              sections |-> IF DictHas(secs, line) THEN secs
                           ELSE DictSet(secs, line, <<>>)]
        ELSE IF cur # None /\ cur # <<>> /\ line # <<>> /\ ~StartsWith(line, Ernte)
        THEN [current_title |-> cur,
              sections |-> DictSet(secs, cur, Append(DictGet(secs, cur), line))]
        ELSE [current_title |-> cur, sections |-> secs]

\* The body of the loop of parse_sections for one raw line: the new
\* [current_title, sections].
ParseStep(kws, cur, secs, raw) ==
    LET line == Strip(raw)
    IN  IF title_pattern_match(kws, line).matched
        THEN [current_title |-> line, sections |-> DictSet(secs, line, <<>>)]
        ELSE IF cur # None /\ cur # <<>> /\ line # <<>> /\ ~StartsWith(line, Ernte)
        THEN [current_title |-> cur,
              sections |-> DictSet(secs, cur, Append(DictGet(secs, cur), line))]
        ELSE [current_title |-> cur, sections |-> secs]

\* parse_sections(text) as a whole: the fold of ParseStep over the lines.
RECURSIVE ParseFold(_, _, _, _)
ParseFold(kws, cur, secs, ls) ==
    IF ls = <<>> THEN secs
    ELSE LET r == ParseStep(kws, cur, secs, ls[1])
         IN  ParseFold(kws, r.current_title, r.sections, Tail(ls))

parse_sections(kws, t) == ParseFold(kws, None, <<>>, TextLines(t))

(***************************************************************************)
(* DataProcessor.                                                          *)
(***************************************************************************)
\* parse_date_period(match) for the list date_pattern.findall returned.
parse_date_period(match) ==
    IF match = <<>> THEN None
    ELSE LET groups == match[1]
         IN  IF Len(groups) >= 2
             THEN IF Len(groups) >= 4 /\ groups[3] # <<>> /\ groups[4] # <<>>
                  THEN groups[1] \o <<" ">> \o groups[2] \o <<" ", "-", " ">>
                       \o groups[3] \o <<" ">> \o groups[4]
                  ELSE groups[1] \o <<" ">> \o groups[2]
             ELSE None

\* int(s) for a str of decimal digits.
RECURSIVE IntOf(_)
IntOf(s) ==
    IF s = <<>> THEN 0
    ELSE 10 * IntOf(SubSeq(s, 1, Len(s) - 1)) + DigitVal(s[Len(s)])

\* A variant that sorts a range key by its end (_, end = period.split(' - ')).
period_key_end(period) ==
    LET end == IF Contains(period, <<" ", "-", " ">>)
               THEN SplitSep(period, <<" ", "-", " ">>)[2]
               ELSE period
        parts == SplitWs(end)
    IN  <<IntOf(parts[2]), month_order(parts[1])>>

\* period_key of sort_periods: <<int(year), month_order[month]>> of the key
\* itself, or of the part before " - ".
period_key(period) ==
    LET start == IF Contains(period, <<" ", "-", " ">>)
                 THEN SplitSep(period, <<" ", "-", " ">>)[1]
                 ELSE period
        parts == SplitWs(start)
    IN  <<IntOf(parts[2]), month_order(parts[1])>>

\* Python's order of two tuples of two ints: a < b.
KeyLess(a, b) == a[1] < b[1] \/ (a[1] = b[1] /\ a[2] < b[2])

\* sorted(periods, key=period_key): a stable sort, so each element is put
\* behind the elements already placed whose key is not greater than its own.
InsertByKey(done, x) ==
    LET n == Cardinality({i \in 1..Len(done) :
                             ~KeyLess(period_key(x), period_key(done[i]))})
        \* the elements not greater than x form a prefix of the sorted list
    IN  SubSeq(done, 1, n) \o <<x>> \o SubSeq(done, n + 1, Len(done))

RECURSIVE SortFold(_, _)
SortFold(done, rest) ==
    IF rest = <<>> THEN done
    ELSE SortFold(InsertByKey(done, rest[1]), Tail(rest))

sort_periods(periods) == SortFold(<<>>, periods)

\* The largest e with 2^e <= n, for n >= 1.
RECURSIVE Log2Floor(_)
Log2Floor(n) == IF n < 2 THEN 0 ELSE 1 + Log2Floor(n \div 2)

\* (99 * 2^k) mod 100: what is left of 0.99 behind its first k binary digits.
RECURSIVE Rem99(_)
Rem99(k) == IF k = 0 THEN 99 ELSE (2 * Rem99(k - 1)) % 100

\* price % 1 <= 0.99 for the double nearest to c / 100.  A double in
\* [2^e, 2^(e+1)) keeps 52 - e binary digits of its fraction, and % 1 is
\* exact.  A fraction of at most ,98 stays below 0.99.  A fraction of ,99
\* is compared with the double 0.99 itself: it passes exactly when the
\* rounding to 52 - e digits went down, that is when the next digit of 0.99
\* is 0.
FractionOk(c) ==
    \/ c % 100 < 99
    \/ 2 * Rem99(52 - Log2Floor(c \div 100)) < 100

\* validate_price(price) for the float c / 100 (isinstance holds of a float).
validate_price(c) ==
    /\ 10000 <= c
    /\ c <= 100000
    /\ FractionOk(c)

RECURSIVE SumOf(_)
SumOf(ps) == IF ps = <<>> THEN 0 ELSE ps[1] + SumOf(Tail(ps))

ValidOnly(ps) == SelectSeq(ps, validate_price)

\* round(total / n, 2) in hundredths: the nearest hundredth of the exact
\* quotient.  Where the exact quotient lies halfway between two hundredths
\* the float result follows the binary representation of the quotient; the
\* even hundredth is taken here.
Round2(total, n) ==
    LET q == total \div n
        r == total % n
    IN  IF 2 * r < n THEN q
        ELSE IF 2 * r > n THEN q + 1
        ELSE IF q % 2 = 0 THEN q ELSE q + 1

\* calculate_statistics(prices): "avg" and "count" of the returned dict
\* ("avg" is "-" when count is 0; "min" and "max" are read nowhere).
calculate_statistics(prices) ==
    LET valid_prices == ValidOnly(prices)
    IN  IF valid_prices = <<>> THEN [avg |-> 0, count |-> 0]
        ELSE [avg |-> Round2(SumOf(valid_prices), Len(valid_prices)),
              count |-> Len(valid_prices)]

\* One attempt of the price pattern \d{3}(?:,\d{1,2})? at position i of s:
\* the position after the match, 0 when there is none.
PriceMatchEnd(s, i) ==
    IF ~(i + 2 <= Len(s) /\ \A k \in i..(i + 2) : s[k] \in Digits) THEN 0
    ELSE IF i + 4 <= Len(s) /\ s[i + 3] = "," /\ s[i + 4] \in Digits
    THEN IF i + 5 <= Len(s) /\ s[i + 5] \in Digits THEN i + 6 ELSE i + 5
    ELSE i + 3

\* re.findall of the price pattern: non-overlapping matches, leftmost first.
RECURSIVE PriceFindallFrom(_, _)
PriceFindallFrom(s, i) ==
    IF i > Len(s) THEN <<>>
    ELSE LET e == PriceMatchEnd(s, i)
         IN  IF e # 0 THEN <<SubSeq(s, i, e - 1)>> \o PriceFindallFrom(s, e)
             ELSE PriceFindallFrom(s, i + 1)

\* The marker word as main.py:130 spells it.
Marker == <<"P", "r", "A~", "ox", "m", "i", "e">>

\* The list comprehension of process_data: the tokens, none if the marker
\* word is in the line.
line_prices(line) ==
    IF Contains(line, Marker) THEN <<>> ELSE PriceFindallFrom(line, 1)

\* float(p.replace(",", ".")) for a price token, in hundredths.
float_of(p) ==
    LET parts == SplitSep(p, <<",">>)
        dec == IF Len(parts) = 1 THEN <<>> ELSE parts[2]
    IN  100 * IntOf(parts[1])
        + (IF Len(dec) = 0 THEN 0
           ELSE IF Len(dec) = 1 THEN 10 * IntOf(dec)
           ELSE IntOf(dec))

EmptyRecord == [prices |-> <<>>, file_averages |-> <<>>, raw_prices |-> <<>>]

\* The body of the inner loop of process_data for one line of section title,
\* from the list dates that findall returned on: the new all_data.
ProcessLineWith(dates, data, title, line, idx) ==
    LET period == parse_date_period(dates)
        prices == line_prices(line)
        periods == DictGet(data, title)
        periods1 == IF DictHas(periods, period) THEN periods
                    ELSE DictSet(periods, period, EmptyRecord)
        numeric_prices == [k \in 1..Len(prices) |-> float_of(prices[k])]
        valid_prices == ValidOnly(numeric_prices)
        rec == DictGet(periods1, period)
        stats == calculate_statistics(valid_prices)
        rec1 == [prices |-> rec.prices \o valid_prices,
                 raw_prices |-> rec.raw_prices \o prices,
                 file_averages |-> DictSet(rec.file_averages, idx, stats.avg)]
    IN  IF dates = <<>> THEN data
        ELSE IF period = None THEN data
        ELSE IF prices = <<>> THEN data
        ELSE IF valid_prices # <<>>
        THEN DictSet(data, title, DictSet(periods1, period, rec1))
        ELSE DictSet(data, title, periods1)

\* A variant that looks for the period in the title line as well.
ProcessLineTitleDates(data, title, line, idx) ==
    ProcessLineWith(date_findall(title \o <<" ">> \o line), data, title, line, idx)

\* dates = self.date_pattern.findall(line), and the rest of the loop body.
ProcessLineStep(data, title, line, idx) ==
    ProcessLineWith(date_findall(line), data, title, line, idx)

\* The head of the outer loop of process_data for one section title.
EnterSection(data, title) ==
    IF DictHas(data, title) THEN data ELSE DictSet(data, title, <<>>)

(***************************************************************************)
(* main: the merge of one document's file_data into combined_data.         *)
(***************************************************************************)
\* dict.update(other)
RECURSIVE DictUpdate(_, _)
DictUpdate(d, other) ==
    IF other = <<>> THEN d
    ELSE DictUpdate(DictSet(d, other[1][1], other[1][2]), Tail(other))

EmptyCombined == [prices |-> <<>>, file_averages |-> <<>>]

\* A variant that assigns the document's averages in place of updating
\* the mapping with them.
RECURSIVE MergePeriodsAssign(_, _)
MergePeriodsAssign(cperiods, periods) ==
    IF periods = <<>> THEN cperiods
    ELSE LET period == periods[1][1]
             data == periods[1][2]
             c1 == IF DictHas(cperiods, period) THEN cperiods
                   ELSE DictSet(cperiods, period, EmptyCombined)
             old == DictGet(c1, period)
             new == [prices |-> old.prices \o data.prices,
                     file_averages |-> data.file_averages]
         IN  MergePeriodsAssign(DictSet(c1, period, new), Tail(periods))

\* The loop over periods.items() of one title.
RECURSIVE MergePeriods(_, _)
MergePeriods(cperiods, periods) ==
    IF periods = <<>> THEN cperiods
    ELSE LET period == periods[1][1]
             data == periods[1][2]
             c1 == IF DictHas(cperiods, period) THEN cperiods
                   ELSE DictSet(cperiods, period, EmptyCombined)
             old == DictGet(c1, period)
             new == [prices |-> old.prices \o data.prices,
                     file_averages |->
                         DictUpdate(old.file_averages, data.file_averages)]
         IN  MergePeriods(DictSet(c1, period, new), Tail(periods))

\* The loop over file_data.items().
RECURSIVE MergeData(_, _)
MergeData(combined, file_data) ==
    IF file_data = <<>> THEN combined
    ELSE LET title == file_data[1][1]
             c1 == IF DictHas(combined, title) THEN combined
                   ELSE DictSet(combined, title, <<>>)
         IN  MergeData(DictSet(c1, title,
                               MergePeriods(DictGet(c1, title), file_data[1][2])),
                       Tail(file_data))

(***************************************************************************)
(* ExcelExporter.                                                          *)
(***************************************************************************)
\* The characters of invalid_chars.
InvalidChars == {"[", "]", ":", "*", "?", "/", "\\"}

\* The longest sheet name of the docstring of sanitize_sheet_name.
MaxSheetLen == 31

SheetDefault == <<"S", "h", "e", "e", "t">>

\* The cut of a name that is too long: name[:31].
Truncate(name) ==
    IF Len(name) > MaxSheetLen THEN SubSeq(name, 1, MaxSheetLen) ELSE name

sanitize_sheet_name(name) ==
    LET n1 == [i \in 1..Len(name) |->
                  IF name[i] \in InvalidChars THEN "_" ELSE name[i]]
        n2 == Strip(n1)
        n3 == IF n2 = <<>> THEN SheetDefault ELSE n2
    IN  Truncate(n3)

\* str(n) for n >= 0.
RECURSIVE StrOfInt(_)
StrOfInt(n) ==
    IF n < 10 THEN <<DigitChar(n)>>
    ELSE StrOfInt(n \div 10) \o <<DigitChar(n % 10)>>

\* f"{base_name}_{counter}"
Suffixed(base_name, counter) == base_name \o <<"_">> \o StrOfInt(counter)

\* A variant that tests the name once (if in place of while).
FreeNameOnce(sheet_name, base_name, counter, used) ==
    IF sheet_name \in used THEN base_name \o <<"_">> \o StrOfInt(counter)
    ELSE sheet_name

\* The while loop of export_to_excel: the first of base_name,
\* base_name_1, base_name_2, ... that is not in used.
RECURSIVE FreeName(_, _, _, _)
FreeName(sheet_name, base_name, counter, used) ==
    IF sheet_name \in used
    THEN FreeName(Suffixed(base_name, counter), base_name, counter + 1, used)
    ELSE sheet_name

SheetNameFor(title, used) ==
    FreeName(sanitize_sheet_name(title), sanitize_sheet_name(title), 1, used)

\* periods[period]["file_averages"].get(i, "-"): a cell of a section sheet.
CellOf(rec, i) ==
    IF DictHas(rec.file_averages, i)
    THEN [present |-> TRUE, value |-> DictGet(rec.file_averages, i)]
    ELSE [present |-> FALSE, value |-> 0]

\* The DataFrame of one title: the header periods and one row per document.
SheetOf(sheet_name, periods, n) ==
    LET sorted_periods == sort_periods(DictKeys(periods))
    IN  [name |-> sheet_name,
         headers |-> sorted_periods,
         rows |-> [i \in 1..n |->
                     [k \in 1..Len(sorted_periods) |->
                        CellOf(DictGet(periods, sorted_periods[k]), i - 1)]]]

\* details_rows: one row per (title, period, document) average.
RECURSIVE DetailsOfAverages(_, _, _)
DetailsOfAverages(title, period, avgs) ==
    IF avgs = <<>> THEN <<>>
    ELSE <<[file |-> avgs[1][1], type |-> title \o <<" ">> \o period,
            price |-> avgs[1][2]]>>
         \o DetailsOfAverages(title, period, Tail(avgs))

RECURSIVE DetailsOfPeriods(_, _)
DetailsOfPeriods(title, periods) ==
    IF periods = <<>> THEN <<>>
    ELSE DetailsOfAverages(title, periods[1][1], periods[1][2].file_averages)
         \o DetailsOfPeriods(title, Tail(periods))

RECURSIVE DetailsOf(_)
DetailsOf(combined) ==
    IF combined = <<>> THEN <<>>
    ELSE DetailsOfPeriods(combined[1][1], combined[1][2])
         \o DetailsOf(Tail(combined))

(***************************************************************************)
(* The inputs: lines and document texts.                                   *)
(***************************************************************************)
\* "Weizen Feb 24"
TitleFeb ==
    <<"W", "e", "i", "z", "e", "n", " ", "F", "e", "b", " ", "2", "4">>

\* "(blank)Weizen Feb 24(blank)"
TitleRaw ==
    <<" ", "W", "e", "i", "z", "e", "n", " ", "F", "e", "b", " ", "2", "4",
      " ">>

\* "Weizen, 305,25"
TitleComma ==
    <<"W", "e", "i", "z", "e", "n", ",", " ", "3", "0", "5", ",", "2", "5">>

\* "Feb 24 300,00"
LineFeb300 ==
    <<"F", "e", "b", " ", "2", "4", " ", "3", "0", "0", ",", "0", "0">>

\* "Feb 24 320,00"
LineFeb320 ==
    <<"F", "e", "b", " ", "2", "4", " ", "3", "2", "0", ",", "0", "0">>

\* "Feb 24 050,00"
LineFebLow ==
    <<"F", "e", "b", " ", "2", "4", " ", "0", "5", "0", ",", "0", "0">>

\* "Feb 24 128,99"
LineFeb99 ==
    <<"F", "e", "b", " ", "2", "4", " ", "1", "2", "8", ",", "9", "9">>

\* "some price line 305,25 text"
LineNoPeriod ==
    <<"s", "o", "m", "e", " ", "p", "r", "i", "c", "e", " ", "l", "i", "n",
      "e", " ", "3", "0", "5", ",", "2", "5", " ", "t", "e", "x", "t">>

\* "Mrz 24 - Mai 24 310,5"
LineRange ==
    <<"M", "r", "z", " ", "2", "4", " ", "-", " ", "M", "a", "i", " ", "2",
      "4", " ", "3", "1", "0", ",", "5">>

\* "Feb 24 Pr(U+00C3)(U+00A4)mie 305,25"
LineMarker ==
    <<"F", "e", "b", " ", "2", "4", " ", "P", "r", "A~", "ox", "m", "i",
      "e", " ", "3", "0", "5", ",", "2", "5">>

\* "Feb 24 offen"
LineNoPrice ==
    <<"F", "e", "b", " ", "2", "4", " ", "o", "f", "f", "e", "n">>

\* "Ernte 24 Feb 24 300,00"
LineErnte ==
    <<"E", "r", "n", "t", "e", " ", "2", "4", " ", "F", "e", "b", " ", "2",
      "4", " ", "3", "0", "0", ",", "0", "0">>

\* "(2 blanks)Jan 25 349,50"
LineIndented ==
    <<" ", " ", "J", "a", "n", " ", "2", "5", " ", "3", "4", "9", ",", "5",
      "0">>

\* "Feb 24 1250,00"
LineLongRun ==
    <<"F", "e", "b", " ", "2", "4", " ", "1", "2", "5", "0", ",", "0", "0">>

EmptyLine == <<>>

\* All sequences of at most n elements of set S.
SeqsUpTo(S, n) == UNION {[1..k -> S] : k \in 0..n}

TextOf(ls) == Join(ls, <<"\n">>)

\* The keyword lists of the runs: the one of the end-to-end example and
\* the default list.
KeywordLists == {<<Weizen>>, DefaultKeywords}

\* The raw lines of the texts parse_sections is run on.
ParsePool == {Weizen, TitleRaw, FWeizen, TitleComma, LineIndented, LineErnte,
              EmptyLine}

MaxParseLines == 3

ParseTexts == {TextOf(ls) : ls \in SeqsUpTo(ParsePool, MaxParseLines) \ {<<>>}}

\* The lines under the title of the documents process_data is run on.
ContentPool == {LineFeb300, LineFeb320, LineFebLow, LineFeb99, LineNoPeriod,
                LineRange, LineMarker, LineNoPrice, LineLongRun, EmptyLine}

MaxLines == 2

DocTexts == {TextOf(<<TitleFeb>> \o ls) : ls \in SeqsUpTo(ContentPool, MaxLines)}

\* The documents of a batch.
BatchTexts ==
    {TextOf(<<Weizen, LineFeb300>>),
     TextOf(<<Weizen, LineFeb320, LineRange>>),
     TextOf(<<Weizen, LineFeb300, LineFeb320>>),
     TextOf(<<TitleFeb, LineNoPeriod, EmptyLine>>),
     TextOf(<<FWeizen, LineFebLow, Weizen, LineIndented>>),
     TextOf(<<LineNoPeriod>>)}

MaxDocs == 2

\* Section titles of an aggregate, among them titles whose sheet names
\* collide with each other or with a suffixed name, and titles as long as
\* and longer than a sheet name may be.
Pad(n) == [i \in 1..n |-> "x"]

TitleSlashA == Weizen \o <<"/", "A">>

TitleUnderA == Weizen \o <<"_", "A">>

TitleUnderA1 == Weizen \o <<"_", "A", "_", "1">>

TitleLong == Weizen \o Pad(MaxSheetLen - Len(Weizen))

TitleLongA == TitleLong \o <<"A">>

TitleLongB == TitleLong \o <<"B">>

TitlePool == {TitleSlashA, TitleUnderA, TitleUnderA1, TitleLong, TitleLongA,
              TitleLongB}

MaxTitles == 3

\* The aggregate main builds from one document per title, each with the
\* line "Feb 24 300,00" under the title.
AggregateOf(titles) ==
    [k \in 1..Len(titles) |->
        <<titles[k],
          << <<SubSeq(LineFeb300, 1, 6),
               [prices |-> <<30000>>, file_averages |-> << <<0, 30000>> >>]>> >> >>]

Aggregates ==
    {AggregateOf(ts) : ts \in {t \in SeqsUpTo(TitlePool, MaxTitles) :
                                  \A i, j \in 1..Len(t) : t[i] = t[j] => i = j}}

\* Period keys as parse_date_period builds them.
SingleKey(m, yy) == Months[m] \o <<" ">> \o StrOfInt(yy)

RangeKey(a, b) == a \o <<" ", "-", " ">> \o b

PeriodPool == {SingleKey(2, 24), SingleKey(1, 25), SingleKey(12, 23),
               RangeKey(SingleKey(2, 24), SingleKey(5, 24)),
               RangeKey(SingleKey(3, 24), SingleKey(1, 23))}

MaxPeriods == 3


(***************************************************************************)
(* The state machine.                                                      *)
(***************************************************************************)
NoExport ==
    /\ ei = 0
    /\ used_names = {}
    /\ sheet_names = <<>>
    /\ writer = "none"
    /\ sheets = <<>>
    /\ details = <<>>
    /\ outcome = "none"

NoSort ==
    /\ periods_in = <<>>
    /\ periods_out = <<>>

NoDocument ==
    /\ text = <<>>
    /\ li = 0
    /\ current_title = None
    /\ sections = <<>>
    /\ si = 0
    /\ lj = 0
    /\ all_data = <<>>

\* main, from the menu choice '1' with a non-empty selection on:
\* combined_data is empty and no document has been read.
Init ==
    /\ pc = "extract"
    /\ title_keywords \in KeywordLists
    /\ num_files \in 1..MaxDocs
    /\ file_index = 0
    /\ combined_data = <<>>
    /\ file_results = <<>>
    /\ NoDocument
    /\ NoExport
    /\ NoSort

\* The head of the loop over selected_files: extract_text of the next
\* document, and the locals of parse_sections.
Extract ==
    /\ pc = "extract"
    /\ file_index < num_files
    /\ \E t \in BatchTexts : text' = t
    /\ li' = 0
    /\ current_title' = None
    /\ sections' = <<>>
    /\ pc' = "parse"
    /\ UNCHANGED <<title_keywords, num_files, file_index, si, lj, all_data,
                   combined_data, file_results, ei, used_names, sheet_names,
                   writer, sheets, details, outcome, periods_in, periods_out>>

\* One iteration of the loop of parse_sections; behind the last line
\* parse_sections returns and process_data starts with an empty all_data.
ParseLine ==
    /\ pc = "parse"
    /\ li < Len(TextLines(text))
    /\ LET r == ParseStep(title_keywords, current_title, sections,
                          TextLines(text)[li + 1])
       IN  /\ current_title' = r.current_title
           /\ sections' = r.sections
    /\ li' = li + 1
    /\ pc' = IF li + 1 = Len(TextLines(text)) THEN "section" ELSE "parse"
    /\ si' = 0
    /\ lj' = 0
    /\ all_data' = <<>>
    /\ UNCHANGED <<title_keywords, num_files, file_index, text, combined_data,
                   file_results, ei, used_names, sheet_names, writer, sheets,
                   details, outcome, periods_in, periods_out>>

\* The head of the outer loop of process_data for the next section.
BeginSection ==
    /\ pc = "section"
    /\ si < Len(sections)
    /\ all_data' = EnterSection(all_data, sections[si + 1][1])
    /\ si' = si + 1
    /\ lj' = 0
    /\ pc' = IF sections[si + 1][2] = <<>> THEN "section" ELSE "line"
    /\ UNCHANGED <<title_keywords, num_files, file_index, text, li,
                   current_title, sections, combined_data, file_results, ei,
                   used_names, sheet_names, writer, sheets, details, outcome,
                   periods_in, periods_out>>

\* One iteration of the inner loop of process_data.
ProcessLine ==
    /\ pc = "line"
    /\ all_data' = ProcessLineStep(all_data, sections[si][1],
                                   sections[si][2][lj + 1], file_index)
    /\ lj' = lj + 1
    /\ pc' = IF lj + 1 = Len(sections[si][2]) THEN "section" ELSE "line"
    /\ UNCHANGED <<title_keywords, num_files, file_index, text, li,
                   current_title, sections, si, combined_data, file_results,
                   ei, used_names, sheet_names, writer, sheets, details,
                   outcome, periods_in, periods_out>>

\* process_data returns file_data and main combines it; the loop over the
\* documents goes on or ends.
Merge ==
    /\ pc = "section"
    /\ si = Len(sections)
    /\ combined_data' = MergeData(combined_data, all_data)
    /\ file_results' = Append(file_results, all_data)
    /\ file_index' = file_index + 1
    /\ pc' = IF file_index + 1 < num_files THEN "extract" ELSE "export"
    /\ UNCHANGED <<title_keywords, num_files, text, li, current_title,
                   sections, si, lj, all_data, ei, used_names, sheet_names,
                   writer, sheets, details, outcome, periods_in, periods_out>>

\* export_to_excel up to the loop over the titles: the early return, or the
\* writer.
ExportBegin ==
    /\ pc = "export"
    /\ \/ /\ combined_data = <<>>
          /\ outcome' = "nodata"
          /\ writer' = writer
          /\ pc' = "done"
       \/ /\ combined_data # <<>>
          /\ outcome' = outcome
          /\ writer' = "open"
          /\ pc' = "sheets"
    /\ ei' = 0
    /\ used_names' = {}
    /\ UNCHANGED <<title_keywords, num_files, file_index, text, li,
                   current_title, sections, si, lj, all_data, combined_data,
                   file_results, sheet_names, sheets, details, periods_in,
                   periods_out>>

\* One iteration of the loop over combined_data.items(): the sheet name and
\* the sheet of one title.
ExportSheet ==
    /\ pc = "sheets"
    /\ ei < Len(combined_data)
    /\ LET sheet_name == SheetNameFor(combined_data[ei + 1][1], used_names)
       IN  /\ used_names' = used_names \cup {sheet_name}
           /\ sheet_names' = Append(sheet_names, sheet_name)
           /\ sheets' = Append(sheets, SheetOf(sheet_name,
                                               combined_data[ei + 1][2],
                                               num_files))
    /\ ei' = ei + 1
    /\ UNCHANGED <<pc, title_keywords, num_files, file_index, text, li,
                   current_title, sections, si, lj, all_data, combined_data,
                   file_results, writer, details, outcome, periods_in,
                   periods_out>>

\* The Details sheet and writer.close(), which writes the file.
ExportFinish ==
    /\ pc = "sheets"
    /\ ei = Len(combined_data)
    /\ details' = DetailsOf(combined_data)
    /\ writer' = "closed"
    /\ outcome' = "written"
    /\ pc' = "done"
    /\ UNCHANGED <<title_keywords, num_files, file_index, text, li,
                   current_title, sections, si, lj, all_data, combined_data,
                   file_results, ei, used_names, sheet_names, sheets,
                   periods_in, periods_out>>

\* A call of sort_periods.
SortCall ==
    /\ pc = "sort"
    /\ periods_out' = sort_periods(periods_in)
    /\ pc' = "sorted"
    /\ UNCHANGED <<title_keywords, num_files, file_index, text, li,
                   current_title, sections, si, lj, all_data, combined_data,
                   file_results, ei, used_names, sheet_names, writer, sheets,
                   details, outcome, periods_in>>

Next ==
    \/ Extract
    \/ ParseLine
    \/ BeginSection
    \/ ProcessLine
    \/ Merge
    \/ ExportBegin
    \/ ExportSheet
    \/ ExportFinish

\* A batch run of main.
Spec == Init /\ [][Next]_vars

\* parse_sections on one document text.
InitParse ==
    /\ pc = "parse"
    /\ title_keywords \in KeywordLists
    /\ num_files = 1
    /\ file_index = 0
    /\ text \in ParseTexts
    /\ li = 0
    /\ current_title = None
    /\ sections = <<>>
    /\ si = 0
    /\ lj = 0
    /\ all_data = <<>>
    /\ combined_data = <<>>
    /\ file_results = <<>>
    /\ NoExport
    /\ NoSort

NextParse == ParseLine

SpecParse == InitParse /\ [][NextParse]_vars

\* parse_sections, process_data and the merge of the last document of a
\* batch whose earlier documents held no section.
InitDoc ==
    /\ pc = "parse"
    /\ title_keywords = <<Weizen>>
    /\ num_files \in 1..MaxDocs
    /\ file_index = num_files - 1
    /\ text \in DocTexts
    /\ li = 0
    /\ current_title = None
    /\ sections = <<>>
    /\ si = 0
    /\ lj = 0
    /\ all_data = <<>>
    /\ combined_data = <<>>
    /\ file_results = [k \in 1..file_index |-> <<>>]
    /\ NoExport
    /\ NoSort

NextDoc ==
    \/ ParseLine
    \/ BeginSection
    \/ ProcessLine
    \/ Merge

SpecDoc == InitDoc /\ [][NextDoc]_vars

\* export_to_excel on the aggregate of a batch.
InitExport ==
    /\ pc = "export"
    /\ title_keywords = DefaultKeywords
    /\ num_files = 1
    /\ file_index = 1
    /\ combined_data \in Aggregates
    /\ file_results = <<>>
    /\ NoDocument
    /\ NoExport
    /\ NoSort

NextExport ==
    \/ ExportBegin
    \/ ExportSheet
    \/ ExportFinish

SpecExport == InitExport /\ [][NextExport]_vars

\* sort_periods on a list of period keys.
InitSort ==
    /\ pc = "sort"
    /\ title_keywords = DefaultKeywords
    /\ num_files = 1
    /\ file_index = 0
    /\ combined_data = <<>>
    /\ file_results = <<>>
    /\ NoDocument
    /\ NoExport
    /\ periods_in \in SeqsUpTo(PeriodPool, MaxPeriods)
    /\ periods_out = <<>>

NextSort == SortCall

SpecSort == InitSort /\ [][NextSort]_vars

(***************************************************************************)
(* The properties.                                                         *)
(***************************************************************************)
\* The <<title, period, record>> triples of a title -> period -> record dict.
Entries(data) ==
    UNION {{<<data[a][1], data[a][2][b][1], data[a][2][b][2]>> :
               b \in 1..Len(data[a][2])} : a \in 1..Len(data)}

\* process_data has processed every line of the document and is about to
\* return all_data.
Returned == pc = "section" /\ si = Len(sections)

\* The valid prices of one line, as process_data computes them.
LineValidPrices(line) ==
    ValidOnly([k \in 1..Len(line_prices(line)) |-> float_of(line_prices(line)[k])])

\* C1: when process_data has processed all lines of a document, every
\* (section, period) record with a non-empty price list has, under the
\* document's index, the average of ALL prices of its list, rounded to two
\* decimal places.
C1_AverageOfAllPrices ==
    Returned =>
        \A e \in Entries(all_data) :
            e[3].prices # <<>> =>
                /\ DictHas(e[3].file_averages, file_index)
                /\ DictGet(e[3].file_averages, file_index)
                     = Round2(SumOf(e[3].prices), Len(e[3].prices))

\* The text of the end-to-end example:
\* "Weizen Feb 24\nsome price line 305,25 text\n".
C2Text == TextOf(<<TitleFeb, LineNoPeriod, EmptyLine>>)

C2Run == title_keywords = <<Weizen>> /\ text = C2Text /\ Returned

\* C2, as claimed: the end-to-end example yields section "Weizen Feb 24"
\* with period "Feb 24", valid prices [305.25] and document average 305.25.
C2_EndToEndAsClaimed ==
    C2Run =>
        /\ DictHas(all_data, TitleFeb)
        /\ DictHas(DictGet(all_data, TitleFeb), SingleKey(2, 24))
        /\ DictGet(DictGet(all_data, TitleFeb), SingleKey(2, 24)).prices
             = <<30525>>
        /\ DictHas(DictGet(DictGet(all_data, TitleFeb),
                           SingleKey(2, 24)).file_averages, file_index)
        /\ DictGet(DictGet(DictGet(all_data, TitleFeb),
                           SingleKey(2, 24)).file_averages, file_index) = 30525

\* C2, amended: the end-to-end example yields section "Weizen Feb 24" with
\* the one content line and no period at all: the period of the title line
\* is not read, and the content line names none, so its price is dropped.
C2_EndToEndNoPeriod ==
    C2Run =>
        /\ sections = << <<TitleFeb, <<LineNoPeriod>> >> >>
        /\ all_data = << <<TitleFeb, <<>> >> >>

C2_Witness == C2Run /\ lj = 1

\* C3: for an aggregate without any (section, period) entry, export_to_excel
\* creates no writer, writes no file and ends with the 'no data' outcome.
C3_NoEntriesNoWrite ==
    (pc \in {"sheets", "done"} /\ Entries(combined_data) = {}) =>
        /\ writer = "none"
        /\ outcome # "written"
        /\ pc = "done" => outcome = "nodata"

\* The title rule of the specification: the line starts with a keyword and
\* every character behind it is a word character, whitespace, '/' or '-'.
TitleRule(kws, line) ==
    \E k \in 1..Len(kws) :
        /\ StartsWith(line, kws[k])
        /\ \A i \in (Len(kws[k]) + 1)..Len(line) : line[i] \in TitleRestChars

\* The trimmed line scanned last has opened or reset a section.
OpenedSection(line) ==
    /\ current_title = line
    /\ DictHas(sections, line)
    /\ DictGet(sections, line) = <<>>

\* C4: parse_sections treats a trimmed line as a new section title if and
\* only if the line satisfies the title rule.
C4_TitleIffRule ==
    li >= 1 =>
        (TitleRule(title_keywords, Strip(TextLines(text)[li]))
            <=> OpenedSection(Strip(TextLines(text)[li])))

\* C5: every sheet name export_to_excel assigns is at most 31 characters
\* long.
C5_SheetNamesAtMost31 ==
    \A k \in 1..Len(sheet_names) : Len(sheet_names[k]) <= MaxSheetLen

\* C6: the sheet names of one export are pairwise distinct, and each is the
\* sanitized title or the sanitized title with a suffix _1, _2, ...
C6_SheetNamesDistinct ==
    /\ \A i, j \in 1..Len(sheet_names) :
           sheet_names[i] = sheet_names[j] => i = j
    /\ \A i \in 1..Len(sheet_names) :
           \/ sheet_names[i] = sanitize_sheet_name(combined_data[i][1])
           \/ \E c \in 1..Len(combined_data) :
                  sheet_names[i]
                    = Suffixed(sanitize_sheet_name(combined_data[i][1]), c)

\* Bases 'Name', 'Name_1', 'Name': the third title got the suffix _2.
C6_Witness ==
    /\ pc = "done"
    /\ Suffixed(sanitize_sheet_name(TitleUnderA), 2) \in used_names

\* Document i's own result holds a valid price for (title, period).
DocHolds(fd, title, period) ==
    /\ DictHas(fd, title)
    /\ DictHas(DictGet(fd, title), period)
    /\ DictGet(DictGet(fd, title), period).prices # <<>>

\* C7: after each merge, the document averages of every (section, period)
\* of the aggregate hold at most one entry per document index, an entry
\* for document i exactly when document i's own result holds a valid price
\* for that (section, period), and that entry is document i's own average.
C7_AggregateAverages ==
    \A e \in Entries(combined_data) :
        LET avgs == e[3].file_averages
        IN  /\ \A a, b \in 1..Len(avgs) : avgs[a][1] = avgs[b][1] => a = b
            /\ \A a \in 1..Len(avgs) : avgs[a][1] \in 0..(Len(file_results) - 1)
            /\ \A i \in 0..(Len(file_results) - 1) :
                   /\ DictHas(avgs, i) <=> DocHolds(file_results[i + 1], e[1], e[2])
                   /\ DictHas(avgs, i) =>
                          DictGet(avgs, i)
                            = DictGet(DictGet(DictGet(file_results[i + 1], e[1]),
                                              e[2]).file_averages, i)

\* Two documents are merged; one (section, period) has an average of each,
\* another of one document only.
C7_Witness ==
    /\ Len(file_results) = 2
    /\ \E e \in Entries(combined_data) : Len(e[3].file_averages) = 2
    /\ \E e \in Entries(combined_data) : Len(e[3].file_averages) = 1

\* The sort key of the claim: the two-digit year and the month index of the
\* key, which for a range key are those of its start.
StartKey(p) == <<IntOf(SubSeq(p, 5, 6)), month_order(SubSeq(p, 1, 3))>>

\* C8: sort_periods returns a permutation of its input in ascending order
\* of (year, month index) of the key or of the start of a range key, keys
\* of equal sort key in input order; sorting the result again changes
\* nothing.
C8_SortStableByStart ==
    pc = "sorted" =>
        /\ Len(periods_out) = Len(periods_in)
        /\ \E f \in Permutations(1..Len(periods_in)) :
               /\ \A k \in 1..Len(periods_in) : periods_out[k] = periods_in[f[k]]
               /\ \A k, l \in 1..Len(periods_in) :
                      k < l =>
                          \/ KeyLess(StartKey(periods_out[k]), StartKey(periods_out[l]))
                          \/ /\ StartKey(periods_out[k]) = StartKey(periods_out[l])
                             /\ f[k] < f[l]
        /\ sort_periods(periods_out) = periods_out

\* A list that is reordered and holds a range key and a single key of one
\* sort key.
C8_Witness ==
    /\ pc = "sorted"
    /\ periods_out # periods_in
    /\ \E k, l \in 1..Len(periods_out) :
           /\ k < l
           /\ periods_out[k] # periods_out[l]
           /\ StartKey(periods_out[k]) = StartKey(periods_out[l])

\* The trimmed lines parse_sections has scanned, and those of them that
\* title_pattern matches.
Scanned ==
    LET ls == TextLines(text)
    IN  [k \in 1..li |-> Strip(ls[k])]

TitleLinesOf(sc) ==
    {k \in 1..Len(sc) : title_pattern_match(title_keywords, sc[k]).matched}

KeptLine(l) == l # <<>> /\ ~StartsWith(l, Ernte)

\* The lines between the last occurrence of title line t and the next title
\* line (or the line scanned last), of the scanned lines sc with the title
\* lines tl.
LinesUnder(sc, tl, t) ==
    LET last == CHOOSE k \in tl :
                    /\ sc[k] = t
                    /\ \A m \in tl : sc[m] = t => m <= k
        later == {k \in tl : k > last} \cup {Len(sc) + 1}
        next == CHOOSE k \in later : \A m \in later : k <= m
    IN  SelectSeq(SubSeq(sc, last + 1, next - 1), KeptLine)

\* C9: at every step of the scan, the keys of sections are the title lines
\* scanned so far, and the sequence under a title holds exactly the
\* trimmed, non-empty lines not starting with 'Ernte' between the last
\* occurrence of that title line and the next title line, in order.  (A
\* title line is a line title_pattern matches.)
C9_SectionsHoldLinesUnderTitle ==
    LET sc == Scanned
        tl == TitleLinesOf(sc)
    IN  /\ DictKeySet(sections) = {sc[k] : k \in tl}
        /\ \A a, b \in 1..Len(sections) : sections[a][1] = sections[b][1] => a = b
        /\ \A a \in 1..Len(sections) :
               sections[a][2] = LinesUnder(sc, tl, sections[a][1])

\* A repeated title has discarded the line kept under its first occurrence.
C9_Witness ==
    /\ li = 3
    /\ text = TextOf(<<Weizen, LineIndented, Weizen>>)
    /\ sections = << <<Weizen, <<>> >> >>

\* C10: a section line with a period and no valid price leaves all_data
\* unchanged.
C10_SkippedLineLeavesDataUnchanged ==
    [][(/\ pc = "line"
        /\ date_findall(sections[si][2][lj + 1]) # <<>>
        /\ LineValidPrices(sections[si][2][lj + 1]) = <<>>)
       => all_data' = all_data]_vars

\* tok has the shape of a price: three digits, optionally followed by ','
\* and one or two digits.
PriceShape(tok) ==
    /\ Len(tok) \in {3, 5, 6}
    /\ \A k \in 1..3 : tok[k] \in Digits
    /\ Len(tok) > 3 => tok[4] = "," /\ \A k \in 5..Len(tok) : tok[k] \in Digits

\* tok is a complete number of line: it stands at a place where no digit
\* precedes it and no digit follows it.
CompleteNumberOf(line, tok) ==
    /\ PriceShape(tok)
    /\ \E i \in 1..Len(line) :
           /\ StartsWithAt(line, i, tok)
           /\ i = 1 \/ line[i - 1] \notin Digits
           /\ i + Len(tok) > Len(line) \/ line[i + Len(tok)] \notin Digits

\* C11: every raw price token process_data has recorded for a section is a
\* complete number of one of the section's lines, never a fragment of a
\* longer run of digits.
C11_TokensAreCompleteNumbers ==
    pc \in {"line", "section"} =>
        \A e \in Entries(all_data) :
            \A k \in 1..Len(e[3].raw_prices) :
                \E n \in 1..Len(DictGet(sections, e[1])) :
                    CompleteNumberOf(DictGet(sections, e[1])[n], e[3].raw_prices[k])

====
